---- MODULE Spec2Model ----
(***************************************************************************)
(* Model of fetch_pairs.py: fetch the coin ranking, match it against the   *)
(* exchange's /USDT markets, drop stablecoins, and append the pairs that   *)
(* the watchlist file does not hold yet.                                   *)
(*                                                                         *)
(* A string is a sequence of tokens; a token is an atomic piece of text    *)
(* (a ticker in one letter case, "/", "USDT", a blank, a line terminator). *)
(* "BTC/USDT\n" is <<"BTC", "/", "USDT", "\n">>.                           *)
(***************************************************************************)
EXTENDS Integers, Sequences, FiniteSets, TLC

VARIABLES
    file,            \* the watchlist file: [exists, data]
    pc,              \* per process: position in save_top_pairs_by_market_cap
    response,        \* per process: the HTTP response of requests.get
    limit,           \* per process: parameter limit
    cmc_coins,       \* per process: local cmc_coins
    markets,         \* per process: exchange.markets after load_markets
    matched_pairs,   \* per process: local matched_pairs (after the slice)
    existing_pairs,  \* per process: local existing_pairs
    new_pairs,       \* per process: local new_pairs
    err,             \* per process: the exception that ended the invocation
    opened,          \* per process: modes in which the invocation opened the file
    requests,        \* per process: HTTP requests issued by the invocation
    fileBefore,      \* history: the file when the invocation started
    repeat,          \* history: the invocation got the inputs of the previous, successful one
    stale,           \* history: another process appended after this one's read
    raced,           \* history: some process appended on a stale read
    everMatched,     \* history: pairs in the matched_pairs of any invocation
    anyFailed,       \* history: some invocation ended in an exception
    file0,           \* history: the file before the first invocation
    runs             \* invocations started

vars == <<file, pc, response, limit, cmc_coins, markets, matched_pairs,
          existing_pairs, new_pairs, err, opened, requests, fileBefore,
          repeat, stale, raced, everMatched, anyFailed, file0, runs>>

----------------------------------------------------------------------------
(* Bounds *)

MaxCoins == 2
MaxLimit == 2
MaxNeg == 1
MaxRuns == 2

Procs == {"p1", "p2"}
Main == "p1"

----------------------------------------------------------------------------
(* Strings *)

NL == "\n"
SP == " "
Whitespace == {NL, SP}

Min(S) == CHOOSE x \in S : \A y \in S : x <= y
Max(S) == CHOOSE x \in S : \A y \in S : x >= y

\* str.upper(), token by token
UpperTok(t) ==
    CASE t = "btc" -> "BTC"
      [] t = "eth" -> "ETH"
      [] t = "usdc" -> "USDC"
      [] t = "usdt" -> "USDT"
      [] OTHER -> t

Upper(s) == [i \in DOMAIN s |-> UpperTok(s[i])]

\* str.endswith(suffix)
EndsWith(s, suffix) ==
    /\ Len(s) >= Len(suffix)
    /\ SubSeq(s, Len(s) - Len(suffix) + 1, Len(s)) = suffix

\* str.split(sep)[0]: the text before the first separator
SplitHead(s, sep) ==
    LET at == {i \in 1..Len(s) : s[i] = sep}
    IN  IF at = {} THEN s ELSE SubSeq(s, 1, Min(at) - 1)

\* str.strip(): leading and trailing whitespace removed
Strip(s) ==
    LET ink == {i \in 1..Len(s) : s[i] \notin Whitespace}
    IN  IF ink = {} THEN <<>> ELSE SubSeq(s, Min(ink), Max(ink))

\* iterating a text file: the lines, each with its terminator, the last one
\* possibly without
RECURSIVE FileLines(_)
FileLines(s) ==
    IF s = <<>> THEN <<>>
    ELSE LET at == {i \in 1..Len(s) : s[i] = NL}
         IN  IF at = {} THEN <<s>>
             ELSE <<SubSeq(s, 1, Min(at))>>
                      \o FileLines(SubSeq(s, Min(at) + 1, Len(s)))

Range(s) == {s[i] : i \in DOMAIN s}

----------------------------------------------------------------------------
(* Inputs: what the market-data API, the exchange and the disk can hold *)

USDT == <<"/", "USDT">>
Pair(sym) == sym \o USDT

CoinSymbols == {<<"BTC">>, <<"eth">>, <<"usdc">>}

RECURSIVE SeqsUpTo(_, _)
SeqsUpTo(S, n) ==
    IF n = 0 THEN {<<>>}
    ELSE LET shorter == SeqsUpTo(S, n - 1)
         IN  shorter \cup {Append(s, x) : s \in shorter, x \in S}

\* the 'data' list: coin objects in rank order
CoinLists == SeqsUpTo({[symbol |-> c] : c \in CoinSymbols}, MaxCoins)

NoResponse == [status |-> "none", hasData |-> FALSE, data |-> <<>>]

Responses ==
    {[status |-> "error", hasData |-> FALSE, data |-> <<>>],
     [status |-> "ok", hasData |-> FALSE, data |-> <<>>]}
    \cup {[status |-> "ok", hasData |-> TRUE, data |-> d] : d \in CoinLists}

Limits == (0 - MaxNeg)..MaxLimit

\* exchange.markets: the keys of the catalog
AllMarkets ==
    {<<"btc", "/", "USDT">>, <<"ETH", "/", "USDT">>,
     <<"USDC", "/", "USDT">>, <<"ETH", "/", "BTC">>}

Catalogs ==
    {AllMarkets,
     {<<"btc", "/", "USDT">>, <<"ETH", "/", "BTC">>},
     {<<"ETH", "/", "USDT">>, <<"USDC", "/", "USDT">>}}

Absent == [exists |-> FALSE, data |-> <<>>]
OnDisk(d) == [exists |-> TRUE, data |-> d]

BTCUSDT == Pair(<<"BTC">>)
ETHUSDT == Pair(<<"ETH">>)
USDCUSDT == Pair(<<"USDC">>)

\* files a first invocation can find: none, an empty one, well-formed ones,
\* one whose last line has no terminator, hand-edited ones with blanks
InitFiles ==
    {Absent,
     OnDisk(<<>>),
     OnDisk(BTCUSDT \o <<NL>>),
     OnDisk(ETHUSDT \o <<NL>> \o BTCUSDT \o <<NL>>),
     OnDisk(BTCUSDT),
     OnDisk(<<SP>> \o BTCUSDT \o <<SP, NL>>),
     OnDisk(USDCUSDT \o <<NL>>),
     OnDisk(ETHUSDT \o <<NL, SP>>)}

\* files this program leaves behind
CleanFiles == {Absent, OnDisk(<<>>), OnDisk(BTCUSDT \o <<NL>>)}

----------------------------------------------------------------------------
(* fetch_top_coins_from_coinmarketcap *)

fetch_no_raise_for_status(resp) ==
    IF resp.status = "ok" /\ resp.hasData
    THEN [raised |-> "none", value |-> resp.data]
    ELSE [raised |-> "none", value |-> <<>>]

fetch_top_coins_from_coinmarketcap(resp) ==
    IF resp.status # "ok" THEN [raised |-> "HTTPError", value |-> <<>>]
    ELSE IF ~resp.hasData THEN [raised |-> "none", value |-> <<>>]
    ELSE [raised |-> "none", value |-> resp.data]

----------------------------------------------------------------------------
(* save_top_pairs_by_market_cap: the computations *)

binance_markets(ms) == {m \in ms : EndsWith(m, USDT)}

binance_bases(ms) == {Upper(SplitHead(m, "/")) : m \in binance_markets(ms)}

stablecoins ==
    {<<"USDT">>, <<"BUSD">>, <<"USDC">>, <<"TUSD">>, <<"USDP">>,
     <<"DAI">>, <<"FDUSD">>, <<"PAX">>, <<"UST">>, <<"USDD">>}

RECURSIVE MatchCoinsNoDenylist(_, _)
MatchCoinsNoDenylist(coins, bases) ==
    IF coins = <<>> THEN <<>>
    ELSE LET symbol_upper == Upper(Head(coins).symbol)
             rest == MatchCoinsNoDenylist(Tail(coins), bases)
         IN  IF symbol_upper \in bases
             THEN <<Pair(symbol_upper)>> \o rest
             ELSE rest

\* the loop over cmc_coins
RECURSIVE MatchCoins(_, _)
MatchCoins(coins, bases) ==
    IF coins = <<>> THEN <<>>
    ELSE LET symbol_upper == Upper(Head(coins).symbol)
             rest == MatchCoins(Tail(coins), bases)
         IN  IF symbol_upper \in stablecoins THEN rest
             ELSE IF symbol_upper \in bases
             THEN <<Pair(symbol_upper)>> \o rest
             ELSE rest

PySliceAll(s, n) == s

\* s[:n]: the first n items, or all but the last -n when n is negative
PySliceTo(s, n) ==
    IF n >= 0
    THEN SubSeq(s, 1, IF n < Len(s) THEN n ELSE Len(s))
    ELSE SubSeq(s, 1, IF Len(s) + n > 0 THEN Len(s) + n ELSE 0)

ReadExistingUnstripped(f) ==
    IF f.exists THEN Range(FileLines(f.data)) ELSE {}

\* {line.strip() for line in file}, or the empty set when the file is absent
ReadExisting(f) ==
    IF f.exists
    THEN {Strip(FileLines(f.data)[i]) : i \in DOMAIN FileLines(f.data)}
    ELSE {}

NewPairsUnfiltered(matched, existing) == matched

\* [p for p in matched_pairs if p not in existing_pairs]
NewPairs(matched, existing) ==
    LET Keep(p) == p \notin existing IN SelectSeq(matched, Keep)

RECURSIVE WriteLinesNoTerminator(_)
WriteLinesNoTerminator(pairs) ==
    IF pairs = <<>> THEN <<>>
    ELSE Head(pairs) \o WriteLinesNoTerminator(Tail(pairs))

\* for pair in new_pairs: file.write(pair + '\n')
RECURSIVE WriteLines(_)
WriteLines(pairs) ==
    IF pairs = <<>> THEN <<>>
    ELSE Head(pairs) \o <<NL>> \o WriteLines(Tail(pairs))

OpenTruncating(f, text) == OnDisk(text)

\* open(filename, 'a') and the writes: the file is created when absent and
\* the text goes after what it holds
OpenAppend(f, text) == OnDisk(f.data \o text)

AppendNewAlwaysOpens(f, pairs) == OpenAppend(f, WriteLines(pairs))

\* if new_pairs: open the file for appending and write them; else leave it
AppendNew(f, pairs) ==
    IF pairs # <<>> THEN OpenAppend(f, WriteLines(pairs)) ELSE f

----------------------------------------------------------------------------
(* The state machine: one process per run of the script *)

InitFrom(files) ==
    /\ file \in files
    /\ file0 = file
    /\ pc = [p \in Procs |-> "idle"]
    /\ response = [p \in Procs |-> NoResponse]
    /\ limit = [p \in Procs |-> 0]
    /\ cmc_coins = [p \in Procs |-> <<>>]
    /\ markets = [p \in Procs |-> {}]
    /\ matched_pairs = [p \in Procs |-> <<>>]
    /\ existing_pairs = [p \in Procs |-> {}]
    /\ new_pairs = [p \in Procs |-> <<>>]
    /\ err = [p \in Procs |-> "none"]
    /\ opened = [p \in Procs |-> {}]
    /\ requests = [p \in Procs |-> 0]
    /\ fileBefore = [p \in Procs |-> file]
    /\ repeat = [p \in Procs |-> FALSE]
    /\ stale = [p \in Procs |-> FALSE]
    /\ raced = FALSE
    /\ everMatched = {}
    /\ anyFailed = FALSE
    /\ runs = 0

Init == InitFrom(InitFiles)

\* a run of the script begins: every local starts clean. Begun right after a
\* successful run (pc = "done"), it is compared with that run's inputs;
\* markets[p] is kept until load_markets replaces it, for that comparison
Start(p, resp, lim) ==
    /\ pc[p] \in {"idle", "done"}
    /\ runs < MaxRuns
    /\ runs' = runs + 1
    /\ response' = [response EXCEPT ![p] = resp]
    /\ limit' = [limit EXCEPT ![p] = lim]
    /\ requests' = [requests EXCEPT ![p] = 1]
    /\ opened' = [opened EXCEPT ![p] = {}]
    /\ fileBefore' = [fileBefore EXCEPT ![p] = file]
    /\ repeat' = [repeat EXCEPT
                    ![p] = pc[p] = "done" /\ resp = response[p] /\ lim = limit[p]]
    /\ stale' = [stale EXCEPT ![p] = FALSE]
    /\ matched_pairs' = [matched_pairs EXCEPT ![p] = <<>>]
    /\ existing_pairs' = [existing_pairs EXCEPT ![p] = {}]
    /\ new_pairs' = [new_pairs EXCEPT ![p] = <<>>]
    /\ UNCHANGED <<file, file0, markets, raced, everMatched>>

\* lines 69-75, the fetcher returns
FetchReturns(p, resp, lim) ==
    /\ Start(p, resp, lim)
    /\ fetch_top_coins_from_coinmarketcap(resp).raised = "none"
    /\ cmc_coins' = [cmc_coins EXCEPT
                       ![p] = fetch_top_coins_from_coinmarketcap(resp).value]
    /\ pc' = [pc EXCEPT ![p] = "fetched"]
    /\ err' = [err EXCEPT ![p] = "none"]
    /\ UNCHANGED anyFailed

\* lines 69-75, raise_for_status raises and nothing catches it
FetchRaises(p, resp, lim) ==
    /\ Start(p, resp, lim)
    /\ fetch_top_coins_from_coinmarketcap(resp).raised # "none"
    /\ cmc_coins' = [cmc_coins EXCEPT ![p] = <<>>]
    /\ pc' = [pc EXCEPT ![p] = "failed"]
    /\ err' = [err EXCEPT ![p] = fetch_top_coins_from_coinmarketcap(resp).raised]
    /\ anyFailed' = TRUE

\* lines 78-105: load_markets returns, then the matching and the slice
LoadMarketsReturns(p, catalog) ==
    /\ pc[p] = "fetched"
    /\ markets' = [markets EXCEPT ![p] = catalog]
    /\ matched_pairs' = [matched_pairs EXCEPT
          ![p] = PySliceTo(MatchCoins(cmc_coins[p], binance_bases(catalog)),
                           limit[p])]
    /\ everMatched' = everMatched \cup Range(matched_pairs'[p])
    /\ repeat' = [repeat EXCEPT ![p] = repeat[p] /\ catalog = markets[p]]
    /\ pc' = [pc EXCEPT ![p] = "matched"]
    /\ UNCHANGED <<file, file0, response, limit, cmc_coins, existing_pairs,
                   new_pairs, err, opened, requests, fileBefore, stale, raced,
                   anyFailed, runs>>

\* lines 78-79: load_markets raises and nothing catches it
LoadMarketsRaises(p) ==
    /\ pc[p] = "fetched"
    /\ pc' = [pc EXCEPT ![p] = "failed"]
    /\ err' = [err EXCEPT ![p] = "NetworkError"]
    /\ repeat' = [repeat EXCEPT ![p] = FALSE]
    /\ anyFailed' = TRUE
    /\ UNCHANGED <<file, file0, response, limit, cmc_coins, markets,
                   matched_pairs, existing_pairs, new_pairs, opened, requests,
                   fileBefore, stale, raced, everMatched, runs>>

\* lines 108-116: the read (FileNotFoundError is caught) and new_pairs
ReadFile(p) ==
    /\ pc[p] = "matched"
    /\ opened' = [opened EXCEPT ![p] = @ \cup {"r"}]
    /\ existing_pairs' = [existing_pairs EXCEPT ![p] = ReadExisting(file)]
    /\ new_pairs' = [new_pairs EXCEPT
                       ![p] = NewPairs(matched_pairs[p], existing_pairs'[p])]
    /\ stale' = [stale EXCEPT ![p] = FALSE]
    /\ pc' = [pc EXCEPT ![p] = "read"]
    /\ UNCHANGED <<file, file0, response, limit, cmc_coins, markets,
                   matched_pairs, err, requests, fileBefore, repeat, raced,
                   everMatched, anyFailed, runs>>

\* line 110: the open raises something other than FileNotFoundError
ReadFileRaises(p) ==
    /\ pc[p] = "matched"
    /\ file.exists
    /\ opened' = [opened EXCEPT ![p] = @ \cup {"r"}]
    /\ pc' = [pc EXCEPT ![p] = "failed"]
    /\ err' = [err EXCEPT ![p] = "OSError"]
    /\ anyFailed' = TRUE
    /\ UNCHANGED <<file, file0, response, limit, cmc_coins, markets,
                   matched_pairs, existing_pairs, new_pairs, requests,
                   fileBefore, repeat, stale, raced, everMatched, runs>>

\* lines 119-125: the append
WriteFile(p) ==
    /\ pc[p] = "read"
    /\ file' = AppendNew(file, new_pairs[p])
    /\ opened' = [opened EXCEPT
                    ![p] = IF new_pairs[p] # <<>> THEN @ \cup {"a"} ELSE @]
    /\ stale' = [q \in Procs |->
                    IF q # p /\ pc[q] = "read" /\ file' # file
                    THEN TRUE ELSE stale[q]]
    /\ raced' = (raced \/ (stale[p] /\ file' # file))
    /\ pc' = [pc EXCEPT ![p] = "done"]
    /\ UNCHANGED <<file0, response, limit, cmc_coins, markets, matched_pairs,
                   existing_pairs, new_pairs, err, requests, fileBefore,
                   repeat, everMatched, anyFailed, runs>>

\* lines 120-122: the open for appending raises (written = FALSE), or a
\* write raises after k pairs went out
WriteFileRaises(p, k, written) ==
    /\ pc[p] = "read"
    /\ new_pairs[p] # <<>>
    /\ k \in 0..(Len(new_pairs[p]) - 1)
    /\ k > 0 => written
    /\ file' = IF written
               THEN OpenAppend(file, WriteLines(SubSeq(new_pairs[p], 1, k)))
               ELSE file
    /\ opened' = [opened EXCEPT ![p] = @ \cup {"a"}]
    /\ stale' = [q \in Procs |->
                    IF q # p /\ pc[q] = "read" /\ file' # file
                    THEN TRUE ELSE stale[q]]
    /\ raced' = (raced \/ (stale[p] /\ file' # file))
    /\ pc' = [pc EXCEPT ![p] = "failed"]
    /\ err' = [err EXCEPT ![p] = "OSError"]
    /\ anyFailed' = TRUE
    /\ UNCHANGED <<file0, response, limit, cmc_coins, markets, matched_pairs,
                   existing_pairs, new_pairs, requests, fileBefore, repeat,
                   everMatched, runs>>

\* line 142 returns, or the exception ends the process: its locals are gone
Exit(p) ==
    /\ pc[p] \in {"done", "failed"}
    /\ pc' = [pc EXCEPT ![p] = "idle"]
    /\ response' = [response EXCEPT ![p] = NoResponse]
    /\ limit' = [limit EXCEPT ![p] = 0]
    /\ cmc_coins' = [cmc_coins EXCEPT ![p] = <<>>]
    /\ markets' = [markets EXCEPT ![p] = {}]
    /\ matched_pairs' = [matched_pairs EXCEPT ![p] = <<>>]
    /\ existing_pairs' = [existing_pairs EXCEPT ![p] = {}]
    /\ new_pairs' = [new_pairs EXCEPT ![p] = <<>>]
    /\ err' = [err EXCEPT ![p] = "none"]
    /\ opened' = [opened EXCEPT ![p] = {}]
    /\ requests' = [requests EXCEPT ![p] = 0]
    /\ fileBefore' = [fileBefore EXCEPT ![p] = file]
    /\ repeat' = [repeat EXCEPT ![p] = FALSE]
    /\ stale' = [stale EXCEPT ![p] = FALSE]
    /\ UNCHANGED <<file, file0, raced, everMatched, anyFailed, runs>>

\* the script run again and again, one run at a time
Next ==
    \/ \E resp \in Responses, lim \in Limits :
          pc[Main] = "idle" /\ FetchReturns(Main, resp, lim)
    \/ \E resp \in Responses, lim \in Limits :
          pc[Main] = "idle" /\ FetchRaises(Main, resp, lim)
    \/ Exit(Main)
    \/ \E catalog \in Catalogs : LoadMarketsReturns(Main, catalog)
    \/ LoadMarketsRaises(Main)
    \/ ReadFile(Main)
    \/ ReadFileRaises(Main)
    \/ WriteFile(Main)
    \/ \E k \in 0..MaxCoins, written \in BOOLEAN : WriteFileRaises(Main, k, written)

Spec == Init /\ [][Next]_vars

\* the script run, then run again at once with the API and the exchange
\* answering as they did the first time
RepeatNext ==
    \/ \E resp \in Responses, lim \in Limits :
          pc[Main] = "idle" /\ FetchReturns(Main, resp, lim)
    \/ \E resp \in Responses, lim \in Limits :
          pc[Main] = "idle" /\ FetchRaises(Main, resp, lim)
    \/ pc[Main] = "done" /\ FetchReturns(Main, response[Main], limit[Main])
    \/ \E catalog \in Catalogs :
          (repeat[Main] => catalog = markets[Main])
              /\ LoadMarketsReturns(Main, catalog)
    \/ LoadMarketsRaises(Main)
    \/ ReadFile(Main)
    \/ ReadFileRaises(Main)
    \/ WriteFile(Main)
    \/ \E k \in 0..MaxCoins, written \in BOOLEAN : WriteFileRaises(Main, k, written)
    \/ Exit(Main)

RepeatSpec == Init /\ [][RepeatNext]_vars

----------------------------------------------------------------------------
(* Two runs of the script at the same time, over the same file, the API and
   the exchange answering both alike *)

ConcInit == InitFrom(CleanFiles)

SameRequest(p, resp, lim) ==
    \A q \in Procs \ {p} :
        pc[q] # "idle" => response[q] = resp /\ limit[q] = lim

SameCatalog(p, catalog) ==
    \A q \in Procs \ {p} :
        pc[q] \in {"matched", "read", "done"} => markets[q] = catalog

ConcNext ==
    \E p \in Procs :
        \/ \E resp \in Responses, lim \in Limits :
              pc[p] = "idle" /\ SameRequest(p, resp, lim)
                  /\ FetchReturns(p, resp, lim)
        \/ \E resp \in Responses, lim \in Limits :
              pc[p] = "idle" /\ SameRequest(p, resp, lim)
                  /\ FetchRaises(p, resp, lim)
        \/ \E catalog \in Catalogs :
              SameCatalog(p, catalog) /\ LoadMarketsReturns(p, catalog)
        \/ LoadMarketsRaises(p)
        \/ ReadFile(p)
        \/ ReadFileRaises(p)
        \/ WriteFile(p)
        \/ \E k \in 0..MaxCoins, written \in BOOLEAN : WriteFileRaises(p, k, written)

ConcSpec == ConcInit /\ [][ConcNext]_vars

----------------------------------------------------------------------------
(* What the claims speak of, stated apart from the code's own computations *)

IsPrefix(a, b) == Len(a) <= Len(b) /\ SubSeq(b, 1, Len(a)) = a

NoRepeats(s) == \A i, j \in DOMAIN s : s[i] = s[j] => i = j

\* a line without its terminator
Chomp(line) ==
    IF line # <<>> /\ line[Len(line)] = NL
    THEN SubSeq(line, 1, Len(line) - 1) ELSE line

\* the entries of a file: its lines, blanks around them ignored
Entries(f) == [i \in DOMAIN FileLines(f.data) |-> Strip(FileLines(f.data)[i])]

PairsIn(f) == Range(Entries(f))

HasDuplicate(f) ==
    \E i, j \in DOMAIN Entries(f) :
        i < j /\ Entries(f)[i] = Entries(f)[j] /\ Entries(f)[i] # <<>>

\* the text the invocation of p has put after what the file held at its start
AppendedText(p) ==
    SubSeq(file.data, Len(fileBefore[p].data) + 1, Len(file.data))

AppendedLines(p) ==
    [i \in DOMAIN FileLines(AppendedText(p)) |-> Chomp(FileLines(AppendedText(p))[i])]

\* the exchange's USDT base assets, upper-cased
UsdtBases(ms) ==
    {<<UpperTok(m[1])>> : m \in {x \in ms : Len(x) = 3 /\ x[2] = "/" /\ x[3] = "USDT"}}

Eligible(coin, ms) ==
    /\ Upper(coin.symbol) \in UsdtBases(ms)
    /\ Upper(coin.symbol) \notin stablecoins

\* the matched pairs in rank order, before any truncation
RankedMatches(coins, ms) ==
    LET Ok(c) == Eligible(c, ms)
        kept == SelectSeq(coins, Ok)
    IN  [i \in DOMAIN kept |-> Upper(kept[i].symbol) \o <<"/", "USDT">>]

\* the first n entries of s
FirstN(s, n) ==
    IF n <= 0 THEN <<>> ELSE IF n >= Len(s) THEN s ELSE SubSeq(s, 1, n)

Without(s, gone) == LET Keep(x) == x \notin gone IN SelectSeq(s, Keep)

Fresh == file0 \in {Absent, OnDisk(<<>>)}

\* C1: after successful invocations only, from a duplicate-free (or absent)
\* file, no pair is on two lines of the file.
C1_NoDuplicatePairs ==
    (~HasDuplicate(file0) /\ ~anyFailed /\ pc[Main] \in {"idle", "done"})
        => ~HasDuplicate(file)

\* C2: every appended line is SYMBOL/USDT with SYMBOL one of the exchange's
\* upper-cased USDT base assets and not a denylisted stablecoin.
C2_AppendedPairsListedAndNotStable ==
    \A i \in DOMAIN AppendedLines(Main) :
        \E sym \in UsdtBases(markets[Main]) \ stablecoins :
            AppendedLines(Main)[i] = sym \o <<"/", "USDT">>

\* a stablecoin ranked first and listed against USDT, and pairs appended
C2_Witness ==
    /\ pc[Main] = "done"
    /\ AppendedLines(Main) # <<>>
    /\ cmc_coins[Main] # <<>>
    /\ Upper(cmc_coins[Main][1].symbol) = <<"USDC">>
    /\ <<"USDC", "/", "USDT">> \in markets[Main]

\* C3 as stated: for every value of limit, the matched list after the slice
\* and the lines appended are at most limit many.
C3_CountWithinAnyLimit ==
    /\ pc[Main] \in {"matched", "read", "done"}
          => Len(matched_pairs[Main]) <= limit[Main]
    /\ pc[Main] = "done" => Len(AppendedLines(Main)) <= limit[Main]

\* C3 amended: for every limit >= 0, the matched list after the slice and the
\* lines appended are at most limit many.
C3_CountWithinNonNegativeLimit ==
    limit[Main] >= 0 => C3_CountWithinAnyLimit

\* more matches than the limit, and the limit is what was appended
C3_Witness ==
    /\ pc[Main] = "done"
    /\ limit[Main] = 1
    /\ Len(RankedMatches(cmc_coins[Main], markets[Main])) = 2
    /\ Len(AppendedLines(Main)) = 1

\* C4: a successful run that got the inputs of the successful run before it
\* appends nothing and leaves the file as it found it.
C4_SecondRunAddsNothing ==
    (pc[Main] = "done" /\ repeat[Main])
        => new_pairs[Main] = <<>> /\ file = fileBefore[Main]

\* C5 as stated: the appended lines are the ranked matches, cut to the first
\* limit entries, then without the pairs the file already held.
C5_AppendedIsFirstLimitThenNew ==
    pc[Main] = "done" =>
        AppendedLines(Main) =
            Without(FirstN(RankedMatches(cmc_coins[Main], markets[Main]), limit[Main]),
                    PairsIn(fileBefore[Main]))

\* C5 amended: the same, for every limit >= 0.
C5_AppendedIsFirstLimitThenNewNonNegative ==
    limit[Main] >= 0 => C5_AppendedIsFirstLimitThenNew

\* two matches, limit 1, the first already in the file: nothing is appended
\* although the second match is new
C5_Witness ==
    /\ pc[Main] = "done"
    /\ limit[Main] = 1
    /\ Len(RankedMatches(cmc_coins[Main], markets[Main])) = 2
    /\ RankedMatches(cmc_coins[Main], markets[Main])[1] \in PairsIn(fileBefore[Main])
    /\ RankedMatches(cmc_coins[Main], markets[Main])[2] \notin PairsIn(fileBefore[Main])
    /\ file = fileBefore[Main]

\* C6: from an absent or empty file, the pairs in the file are among the
\* pairs matched by the invocations so far.
C6_FileWithinEverMatched ==
    Fresh => PairsIn(file) \subseteq everMatched

\* two invocations have each appended a pair to a file that started absent
C6_Witness ==
    /\ file0 = Absent
    /\ runs = 2
    /\ pc[Main] = "done"
    /\ fileBefore[Main].data # <<>>
    /\ file # fileBefore[Main]

\* C7: a response without 'data' gives an empty coin list and an empty
\* matched list, is no failure of the fetcher, and leaves the file as it was.
C7_NoDataNoMutation ==
    (pc[Main] # "idle" /\ response[Main].status = "ok" /\ ~response[Main].hasData)
        => /\ cmc_coins[Main] = <<>>
           /\ matched_pairs[Main] = <<>>
           /\ err[Main] # "HTTPError"
           /\ file = fileBefore[Main]

\* the invocation completed and the absent file was not created
C7_Witness ==
    /\ pc[Main] = "done"
    /\ response[Main].status = "ok"
    /\ ~response[Main].hasData
    /\ ~file.exists

\* C8: an HTTP error status, or a failure of load_markets, ends the
\* invocation in that error after one request, with the file not opened
\* and not changed.
C8_FatalBeforeAnyFileOperation ==
    /\ (pc[Main] # "idle" /\ response[Main].status = "error")
          => pc[Main] = "failed" /\ err[Main] = "HTTPError"
    /\ (pc[Main] = "failed" /\ err[Main] \in {"HTTPError", "NetworkError"})
          => /\ requests[Main] = 1
             /\ opened[Main] = {}
             /\ file = fileBefore[Main]

\* load_markets failed in a second invocation whose coins would have matched
C8_Witness ==
    /\ pc[Main] = "failed"
    /\ err[Main] = "NetworkError"
    /\ runs = 2
    /\ cmc_coins[Main] # <<>>
    /\ ~file.exists

C10_DuplicateOnlyByRace ==
    (HasDuplicate(file) /\ \A p \in Procs : NoRepeats(matched_pairs[p]))
        => raced

\* read, read, append, append: both invocations appended the same pair
C10_Witness ==
    /\ \A p \in Procs : pc[p] = "done" /\ NoRepeats(matched_pairs[p])
                            /\ new_pairs[p] # <<>>
    /\ new_pairs["p1"] = new_pairs["p2"]
    /\ HasDuplicate(file)

====
